---- MODULE Spec2Model ----
(***************************************************************************)
(* State-machine model of the GCM client of src/gcm.go: the Client with    *)
(* its current xmpp connection, the goroutines it starts                   *)
(* (monitorConnection, the listen goroutine of connectXmpp), the upstream  *)
(* message callback onCCSMessage, replaceXmppClient, Close, and the        *)
(* exponential backoff used by SendHttp.                                   *)
(*                                                                         *)
(* Goroutines interleave at the granularity of their accesses to the       *)
(* shared field c.xmppClient and of their blocking calls.  NewClient is     *)
(* three steps: connectXmpp, which starts the listen goroutine holding     *)
(* c.onCCSMessage, the write of c.xmppClient, and the start of             *)
(* monitorConnection; messages are handled in between.  Any started        *)
(* goroutine and the caller may take the next step: a goroutine inside     *)
(* time.Sleep, inside the handler or returning does not hold up the rest.  *)
(***************************************************************************)
EXTENDS Integers, Sequences, FiniteSets, TLC

\* Bound on the connectXmpp attempts of one run (NewClient's and those of
\* every replaceXmppClient).
MaxConnects == 3

\* The attempts of one SendHttp call are counted up to this bound.
MaxTries == 4

\* The longest duration, in seconds, handed to exponentialBackoff.setMin.
MaxDuration == 12

\* Bound on the replacement triggers (ping timeouts and drain messages) of one
\* run of the specifications that follow every message and every step of few
\* replacements (RouterSpec, QuietSpec).
MaxTriggers == 1

\* Default Min and Max delay for backoff, in seconds.
DefaultMinBackoff == 1
DefaultMaxBackoff == 10

VARIABLES
    xmppClient, \* Client.xmppClient: index into inst of the current connection, 0 = nil
    inst,       \* the xmppGcmClient objects created so far, in creation order
    thr,        \* the goroutines started so far (monitorConnection loops and listeners)
    main,       \* the goroutine of the caller that owns the Client
    hist        \* history counters of the events of the run

vars == <<xmppClient, inst, thr, main, hist>>

----------------------------------------------------------------------------
\* Upstream messages (CcsMessage): the three fields onCCSMessage reads.

CCSAck == "ack"
CCSNack == "nack"
CCSControl == "control"
Draining == "CONNECTION_DRAINING"

MessageTypes == {CCSAck, CCSNack, CCSControl}
Errors == {"", Draining}
ControlTypes == {"", Draining}

\* The messages delivered: every message type, with at most one of the error
\* code and the control type set.
CcsMessages ==
    {m \in [MessageType : MessageTypes, Error : Errors, ControlType : ControlTypes] :
        m.Error = "" \/ m.ControlType = ""}

NoMessage == [MessageType |-> "none", Error |-> "", ControlType |-> ""]

\* What the caller's MessageHandler may return.
HandlerResults == {"nil", "e1", "e2"}

\* The case condition of onCCSMessage's switch.
IsDrainMut(cm) ==
    \/ cm.MessageType = CCSNack
    \/ cm.MessageType = CCSControl /\ cm.ControlType = Draining

IsDrain(cm) ==
    \/ cm.MessageType = CCSNack /\ cm.Error = Draining
    \/ cm.MessageType = CCSControl /\ cm.ControlType = Draining

DrainMessages == {m \in CcsMessages : IsDrain(m)}

\* The drain messages that are control messages.
ControlDrains == {m \in DrainMessages : m.MessageType = CCSControl}

\* After the replacement attempt of a drain message: TRUE when the message is
\* consumed (return nil), FALSE when it bubbles up to the handler.
ConsumedMut(cm) == FALSE

Consumed(cm) == cm.MessageType = CCSControl

----------------------------------------------------------------------------
\* Goroutines.  Connection i has its listen goroutine <<"L", i>> (started by
\* connectXmpp) and the monitorConnection goroutine <<"M", i>> started by the
\* call that connected it (NewClient or replaceXmppClient).

Tids == {"L", "M"} \X (1..MaxConnects)

\* pc: where the goroutine is; x: the connection a monitor pings; cm: the
\* message onCCSMessage handles; closeOld, newc, oldc, rerr: parameter, locals
\* and result of replaceXmppClient; herr: what the handler returned; ret: what
\* onCCSMessage returns; hmsg: the message the handler was given.  The
\* counters record what the current call has done: writes of c.xmppClient,
\* monitors started and gracefulClose calls of the replaceXmppClient call,
\* handler calls and replaceXmppClient calls of the onCCSMessage call.
Idle(pc) ==
    [pc |-> pc, x |-> 0, cm |-> NoMessage, closeOld |-> FALSE, newc |-> 0,
     oldc |-> 0, rerr |-> FALSE, herr |-> "nil", ret |-> "nil",
     hmsg |-> NoMessage, nwrite |-> 0, nspawn |-> 0, nclose |-> 0,
     hcalls |-> 0, rcalls |-> 0, entry |-> 0]

NotStarted == Idle("none")
NewMonitor == Idle("m_loop")
NewListener == Idle("l_idle")

NewInstance ==
    [open |-> TRUE, closes |-> 0, timedOut |-> FALSE, replaced |-> FALSE]

Threads == {t \in Tids : thr[t].pc # "none"}

Monitors == {t \in Threads : t[1] = "M"}
Listeners == {t \in Threads : t[1] = "L"}

\* Replacement triggers still allowed: each one leads to one connect attempt.
Budget == 1 + hist.timeouts + hist.drains < MaxConnects

\* The same, for the runs of few replacements.
FewTriggers == hist.timeouts + hist.drains < MaxTriggers

----------------------------------------------------------------------------
\* xmppGcmClient.gracefulClose on connection i: the connections afterwards.
gracefulClose(i) ==
    [inst EXCEPT ![i] = [@ EXCEPT !.open = FALSE, !.closes = @ + 1]]

----------------------------------------------------------------------------
\* The exponential backoff: the backoff.Backoff value b (Min, Max, its attempt
\* counter; Factor 2, Jitter on) and currentDelay, in whole seconds.

NoBackoff == [Min |-> 0, Max |-> 0, attempts |-> 0, currentDelay |-> 0]

RECURSIVE Pow2(_)
Pow2(n) == IF n = 0 THEN 1 ELSE 2 * Pow2(n - 1)

\* backoff.Backoff.Duration on b: the pairs <<delay returned, b afterwards>>.
\* The delay is Min * 2^attempts, jittered down to anything from Min on; a delay
\* above Max is capped to Max and does not count as an attempt.
Duration(b) ==
    {IF d > b.Max THEN <<b.Max, b>> ELSE <<d, [b EXCEPT !.attempts = @ + 1]>> :
        d \in b.Min..(b.Min * Pow2(b.attempts))}

\* newExponentialBackoff: the backoffs it may return.  The composite literal
\* copies *b and calls b.Duration(); the copy is taken before or after the
\* call bumps the attempt counter.
newExponentialBackoff ==
    LET b == [Min |-> DefaultMinBackoff, Max |-> DefaultMaxBackoff,
              attempts |-> 0, currentDelay |-> 0]
    IN  UNION {{[b EXCEPT !.currentDelay = r[1]],
                [r[2] EXCEPT !.currentDelay = r[1]]} : r \in Duration(b)}

\* exponentialBackoff.sendAnother
sendAnotherMut(eb) == eb.currentDelay < eb.Max

sendAnother(eb) == eb.currentDelay <= eb.Max

\* exponentialBackoff.setMin (pointer receiver): the backoff afterwards.
setMinMut(eb, min) == [eb EXCEPT !.Min = min, !.currentDelay = min]

setMin(eb, min) ==
    [eb EXCEPT !.Min = min,
               !.currentDelay = IF @ < min THEN min ELSE @]

\* The body of exponentialBackoff.wait run on a backoff: that backoff afterwards
\* (the sleep, then currentDelay = b.Duration()).
waitBody(eb) ==
    {[r[2] EXCEPT !.currentDelay = r[1]] : r \in Duration(eb)}

\* exponentialBackoff.wait: the caller's backoff afterwards.  The receiver is
\* a value, so the sleep and the new delay happen on a copy that is dropped
\* on return.
wait(eb) ==
    {eb : copy \in waitBody(eb)}

----------------------------------------------------------------------------
Init ==
    /\ xmppClient = 0
    /\ inst = <<>>
    /\ thr = [t \in Tids |-> NotStarted]
    /\ main = [pc |-> "start", x |-> 0, eb |-> NoBackoff, tries |-> 0,
               sx |-> 0, sends |-> 0, sres |-> "nil", sret |-> "nil",
               op |-> "none", arg |-> 0, prev |-> NoBackoff, res |-> TRUE]
    /\ hist = [connects |-> 0, monFails |-> 0, timeouts |-> 0, drains |-> 0,
               replTrue |-> 0, sleeps |-> 0]

\* NewClient, initial connectXmpp succeeds: the connection is created and its
\* listen goroutine started (connectXmpp), holding c.onCCSMessage; xm is the
\* caller's local.
NewClientOk ==
    /\ main.pc = "start"
    /\ inst' = Append(inst, NewInstance)
    /\ thr' = [thr EXCEPT ![<<"L", Len(inst')>>] = NewListener]
    /\ main' = [main EXCEPT !.pc = "n_write", !.x = Len(inst')]
    /\ hist' = [hist EXCEPT !.connects = @ + 1]
    /\ UNCHANGED xmppClient

\* c.xmppClient = xm
NewClientWrite ==
    /\ main.pc = "n_write"
    /\ xmppClient' = main.x
    /\ main' = [main EXCEPT !.pc = "n_spawn"]
    /\ UNCHANGED <<inst, thr, hist>>

\* go c.monitorConnection(); return c, nil
NewClientMonitor ==
    /\ main.pc = "n_spawn"
    /\ thr' = [thr EXCEPT ![<<"M", main.x>>] = NewMonitor]
    /\ main' = [main EXCEPT !.pc = "ready"]
    /\ UNCHANGED <<xmppClient, inst, hist>>

\* NewClient, initial connectXmpp fails: return nil, err.
NewClientFail ==
    /\ main.pc = "start"
    /\ main' = [main EXCEPT !.pc = "failed"]
    /\ hist' = [hist EXCEPT !.connects = @ + 1]
    /\ UNCHANGED <<xmppClient, inst, thr>>

----------------------------------------------------------------------------
\* Client.Close: c.xmppClient.gracefulClose(); return nil.  The read of the
\* field and the blocking gracefulClose are two steps.
CloseRead ==
    /\ main.pc = "ready"
    /\ main' = [main EXCEPT !.pc = "c_close", !.x = xmppClient]
    /\ UNCHANGED <<xmppClient, inst, thr, hist>>

CloseDo ==
    /\ main.pc = "c_close"
    /\ inst' = gracefulClose(main.x)
    /\ main' = [main EXCEPT !.pc = "closed"]
    /\ UNCHANGED <<xmppClient, thr, hist>>

----------------------------------------------------------------------------
\* Client.SendXmpp: return c.xmppClient.send(m).  The read of the field and
\* the blocking send are two steps; what send returns is returned as it is.
\* A send on a closed connection fails.
SendResults == {"ok", "err"}

SendTarget == xmppClient

SendXmpp ==
    /\ main.pc \in {"ready", "s_done"}
    /\ main' = [main EXCEPT !.pc = "s_send", !.sx = SendTarget, !.sends = 0,
                            !.sres = "nil", !.sret = "nil"]
    /\ UNCHANGED <<xmppClient, inst, thr, hist>>

SendDo(res) ==
    /\ main.pc = "s_send"
    /\ inst[main.sx].open \/ res = "err"
    /\ main' = [main EXCEPT !.pc = "s_done", !.sends = @ + 1,
                            !.sres = res, !.sret = res]
    /\ UNCHANGED <<xmppClient, inst, thr, hist>>

----------------------------------------------------------------------------
\* Client.SendHttp: b := newExponentialBackoff(); c.httpClient.sendHttp(m, b).
\* sendHttp retries while b.sendAnother(), calling b.wait() between attempts
\* (after b.setMin when the server names a Retry-After), and returns the
\* last error once sendAnother is false.  The transport fails every attempt.

\* The Retry-After values of a failed attempt, in seconds; 0: none given.
RetryAfters == {0, 2, 5, 11}

SendHttp ==
    /\ main.pc = "ready"
    /\ \E eb \in newExponentialBackoff :
         main' = [main EXCEPT !.pc = "h_check", !.eb = eb, !.tries = 0]
    /\ UNCHANGED <<xmppClient, inst, thr, hist>>

\* for b.sendAnother() { ... }
HttpCheck ==
    /\ main.pc = "h_check"
    /\ main' = [main EXCEPT !.pc = IF sendAnother(main.eb) THEN "h_send" ELSE "h_done"]
    /\ UNCHANGED <<xmppClient, inst, thr, hist>>

\* One attempt, which fails.
HttpAttempt(retryAfter) ==
    /\ main.pc = "h_send"
    /\ main' = [main EXCEPT !.pc = "h_wait",
                            !.tries = IF @ < MaxTries THEN @ + 1 ELSE @,
                            !.eb = IF retryAfter = 0 THEN @ ELSE setMin(@, retryAfter)]
    /\ UNCHANGED <<xmppClient, inst, thr, hist>>

\* b.wait(); continue
HttpWait ==
    /\ main.pc = "h_wait"
    /\ \E eb \in wait(main.eb) :
         main' = [main EXCEPT !.pc = "h_check", !.eb = eb]
    /\ UNCHANGED <<xmppClient, inst, thr, hist>>

----------------------------------------------------------------------------
\* Client.replaceXmppClient, executed by goroutine t (a monitor or a listener
\* inside onCCSMessage).  The locals of the call live in thr[t].

\* Entering the call: fresh locals.  entry keeps, for a closeOld call, the
\* instance that is current when the call is made.
EnterReplace(r, closeOld) ==
    [r EXCEPT !.pc = "r_connect", !.closeOld = closeOld, !.newc = 0, !.oldc = 0,
              !.rerr = FALSE, !.nwrite = 0, !.nspawn = 0,
              !.nclose = 0, !.rcalls = @ + 1,
              !.entry = IF closeOld THEN xmppClient ELSE 0]

\* connectXmpp succeeds: a new connection with its listen goroutine.
ReplaceConnectOk(t) ==
    /\ thr[t].pc = "r_connect"
    /\ inst' = Append(inst, NewInstance)
    /\ thr' = [thr EXCEPT ![t] = [@ EXCEPT !.pc = "r_read", !.newc = Len(inst')],
                          ![<<"L", Len(inst')>>] = NewListener]
    /\ hist' = [hist EXCEPT !.connects = @ + 1]
    /\ UNCHANGED <<xmppClient, main>>

\* connectXmpp fails: log and return err.
FailedFrameMut(r) ==
    [r EXCEPT !.pc = "r_read", !.rerr = TRUE, !.newc = r.x]

FailedFrame(r) ==
    [r EXCEPT !.pc = "r_ret", !.rerr = TRUE]

ReplaceConnectFail(t) ==
    /\ thr[t].pc = "r_connect"
    /\ thr' = [thr EXCEPT ![t] = FailedFrame(@)]
    /\ hist' = [hist EXCEPT !.connects = @ + 1,
                            !.monFails = IF t[1] = "M" THEN @ + 1 ELSE @]
    /\ UNCHANGED <<xmppClient, inst, main>>

\* oldc := c.xmppClient
ReplaceRead(t) ==
    /\ thr[t].pc = "r_read"
    /\ thr' = [thr EXCEPT ![t] = [@ EXCEPT !.pc = "r_write", !.oldc = xmppClient]]
    /\ UNCHANGED <<xmppClient, inst, main, hist>>

\* if closeOld { ... }: where the call goes after starting the monitor.
AfterSpawn(closeOld) == IF closeOld THEN "r_close" ELSE "r_ret"

\* c.xmppClient = newc; go c.monitorConnection().  Starting the goroutine
\* touches no shared state, so it is taken together with the write.
ReplaceWrite(t) ==
    /\ thr[t].pc = "r_write"
    /\ xmppClient' = thr[t].newc
    /\ thr' = [thr EXCEPT ![t] = [@ EXCEPT !.pc = AfterSpawn(thr[t].closeOld),
                                           !.nwrite = @ + 1, !.nspawn = @ + 1],
                          ![<<"M", thr[t].newc>>] = NewMonitor]
    /\ UNCHANGED <<inst, main, hist>>

\* A replaceXmppClient call that returns nil has replaced the instance it
\* read as oldc: the record of it kept for the later callers of SendXmpp.
MarkReplaced(r) ==
    IF r.rerr \/ r.oldc = 0 THEN inst
    ELSE [inst EXCEPT ![r.oldc].replaced = TRUE]

\* The connection replaceXmppClient closes.
CloseTargetMut(r) == r.newc

CloseTarget(r) == r.oldc

\* oldc.gracefulClose()
ReplaceClose(t) ==
    /\ thr[t].pc = "r_close"
    /\ inst' = gracefulClose(CloseTarget(thr[t]))
    /\ thr' = [thr EXCEPT ![t] = [@ EXCEPT !.pc = "r_ret", !.nclose = @ + 1]]
    /\ UNCHANGED <<xmppClient, main, hist>>

----------------------------------------------------------------------------
\* Client.monitorConnection, goroutine t.

\* The loop reads c.xmppClient and blocks in its pingPeriodically.
MonitorRead(t) ==
    /\ thr[t].pc = "m_loop"
    /\ thr' = [thr EXCEPT ![t] = [@ EXCEPT !.pc = "m_ping", !.x = xmppClient]]
    /\ UNCHANGED <<xmppClient, inst, main, hist>>

\* pingPeriodically returns nil: the connection was closed; break.
PingClosed(t) ==
    /\ thr[t].pc = "m_ping"
    /\ ~inst[thr[t].x].open
    /\ thr' = [thr EXCEPT ![t] = Idle("m_done")]
    /\ UNCHANGED <<xmppClient, inst, main, hist>>

\* pingPeriodically returns an error (the ping timed out) and the loop calls
\* c.replaceXmppClient(true).
PingTimeout(t) ==
    /\ thr[t].pc = "m_ping"
    /\ inst[thr[t].x].open
    /\ Budget
    /\ inst' = [inst EXCEPT ![thr[t].x].timedOut = TRUE]
    /\ thr' = [thr EXCEPT ![t] = EnterReplace(@, TRUE)]
    /\ hist' = [hist EXCEPT !.timeouts = @ + 1, !.replTrue = @ + 1]
    /\ UNCHANGED <<xmppClient, main>>

\* Where the loop goes when replaceXmppClient has returned.
AfterReplace(rerr) == IF rerr THEN "m_sleep" ELSE "m_loop"

MonitorReturn(t) ==
    /\ t[1] = "M"
    /\ thr[t].pc = "r_ret"
    /\ thr' = [thr EXCEPT ![t] = Idle(AfterReplace(thr[t].rerr))]
    /\ inst' = MarkReplaced(thr[t])
    /\ UNCHANGED <<xmppClient, main, hist>>

\* time.Sleep(DefaultPingInterval), then the next iteration.
MonitorSleep(t) ==
    /\ thr[t].pc = "m_sleep"
    /\ thr' = [thr EXCEPT ![t] = Idle("m_loop")]
    /\ hist' = [hist EXCEPT !.sleeps = @ + 1]
    /\ UNCHANGED <<xmppClient, inst, main>>

----------------------------------------------------------------------------
\* The listen goroutine of connection thr[t].x and Client.onCCSMessage.

\* A message arrives on the open connection and onCCSMessage runs its switch:
\* a drain message calls replaceXmppClient(false), any other bubbles up.
Receive(t, cm) ==
    /\ thr[t].pc = "l_idle"
    /\ inst[t[2]].open
    /\ IsDrain(cm) => Budget
    /\ thr' = [thr EXCEPT ![t] =
                 IF IsDrain(cm)
                 THEN EnterReplace([@ EXCEPT !.cm = cm], FALSE)
                 ELSE [@ EXCEPT !.cm = cm, !.pc = "o_bubble"]]
    /\ hist' = [hist EXCEPT !.drains = IF IsDrain(cm) THEN @ + 1 ELSE @]
    /\ UNCHANGED <<xmppClient, inst, main>>

\* replaceXmppClient(false) has returned (an error is only logged):
\* a control message is consumed, a nack bubbles up.
RouterReturnMut(t) ==
    /\ t[1] = "L"
    /\ thr[t].pc = "r_ret"
    /\ thr' = [thr EXCEPT ![t] =
                 IF @.rerr /\ @.rcalls < 2 THEN EnterReplace(@, FALSE)
                 ELSE IF Consumed(@.cm)
                 THEN [@ EXCEPT !.pc = "o_ret", !.ret = "nil"]
                 ELSE [@ EXCEPT !.pc = "o_bubble"]]
    /\ inst' = MarkReplaced(thr[t])
    /\ UNCHANGED <<xmppClient, main, hist>>

RouterReturn(t) ==
    /\ t[1] = "L"
    /\ thr[t].pc = "r_ret"
    /\ thr' = [thr EXCEPT ![t] =
                 IF Consumed(@.cm)
                 THEN [@ EXCEPT !.pc = "o_ret", !.ret = "nil"]
                 ELSE [@ EXCEPT !.pc = "o_bubble"]]
    /\ inst' = MarkReplaced(thr[t])
    /\ UNCHANGED <<xmppClient, main, hist>>

\* What onCCSMessage returns when the handler returned e.
BubbleResultMut(e) == "nil"

BubbleResult(e) == e

\* return c.mh(cm)
Bubble(t, e) ==
    /\ thr[t].pc = "o_bubble"
    /\ thr' = [thr EXCEPT ![t] = [@ EXCEPT !.pc = "o_ret", !.hcalls = @ + 1,
                                           !.hmsg = thr[t].cm, !.herr = e,
                                           !.ret = BubbleResult(e)]]
    /\ UNCHANGED <<xmppClient, inst, main, hist>>

\* onCCSMessage has returned to the listen loop.
RouterDone(t) ==
    /\ thr[t].pc = "o_ret"
    /\ thr' = [thr EXCEPT ![t] = Idle("l_idle")]
    /\ UNCHANGED <<xmppClient, inst, main, hist>>

----------------------------------------------------------------------------
\* The supervision of the client: construction, Close, the monitorConnection
\* loops with their replacements, and the drain messages with theirs.  The
\* drain messages here are the control messages; a drain nack starts the same
\* replaceXmppClient(false) and differs in being forwarded afterwards, which
\* RouterSpec covers.
Next ==
    \/ NewClientOk
    \/ NewClientFail
    \/ NewClientWrite
    \/ NewClientMonitor
    \/ CloseRead
    \/ CloseDo
    \/ \E t \in Threads : ReplaceConnectOk(t)
    \/ \E t \in Threads : ReplaceConnectFail(t)
    \/ \E t \in Threads : ReplaceRead(t)
    \/ \E t \in Threads : ReplaceWrite(t)
    \/ \E t \in Threads : ReplaceClose(t)
    \/ \E t \in Threads : MonitorRead(t)
    \/ \E t \in Threads : PingClosed(t)
    \/ \E t \in Threads : PingTimeout(t)
    \/ \E t \in Threads : MonitorReturn(t)
    \/ \E t \in Threads : MonitorSleep(t)
    \/ \E t \in Threads : \E cm \in ControlDrains : Receive(t, cm)
    \/ \E t \in Threads : RouterReturn(t)
    \/ \E t \in Threads : RouterDone(t)

Spec == Init /\ [][Next]_vars

\* The steps the client's goroutines take on their own: everything but the
\* arrival of a message, a ping timing out and the caller calling Close.
ProgNext ==
    \/ NewClientOk
    \/ NewClientFail
    \/ NewClientWrite
    \/ NewClientMonitor
    \/ CloseDo
    \/ \E t \in Threads : ReplaceConnectOk(t)
    \/ \E t \in Threads : ReplaceConnectFail(t)
    \/ \E t \in Threads : ReplaceRead(t)
    \/ \E t \in Threads : ReplaceWrite(t)
    \/ \E t \in Threads : ReplaceClose(t)
    \/ \E t \in Threads : MonitorRead(t)
    \/ \E t \in Threads : PingClosed(t)
    \/ \E t \in Threads : MonitorReturn(t)
    \/ \E t \in Threads : MonitorSleep(t)
    \/ \E t \in Threads : RouterReturn(t)
    \/ \E t \in Threads : RouterDone(t)

\* A connection whose ping has timed out once is dead: pinging it again times
\* out again.
RepeatTimeout ==
    \E t \in Threads :
        thr[t].pc = "m_ping" /\ inst[thr[t].x].timedOut /\ PingTimeout(t)

\* The supervision with its goroutines scheduled: a goroutine that can take a
\* step takes one, time.Sleep returns, connectXmpp returns, and a dead
\* connection fails its next ping.
FairSpec == Init /\ [][Next]_vars /\ WF_vars(ProgNext) /\ WF_vars(RepeatTimeout)

\* The supervision of a client whose caller sends over XMPP and does not call
\* Close.
SendNext ==
    \/ NewClientOk
    \/ NewClientFail
    \/ NewClientWrite
    \/ NewClientMonitor
    \/ SendXmpp
    \/ \E res \in SendResults : SendDo(res)
    \/ \E t \in Threads : ReplaceConnectOk(t)
    \/ \E t \in Threads : ReplaceConnectFail(t)
    \/ \E t \in Threads : ReplaceRead(t)
    \/ \E t \in Threads : ReplaceWrite(t)
    \/ \E t \in Threads : ReplaceClose(t)
    \/ \E t \in Threads : MonitorRead(t)
    \/ \E t \in Threads : PingClosed(t)
    \/ \E t \in Threads : PingTimeout(t)
    \/ \E t \in Threads : MonitorReturn(t)
    \/ \E t \in Threads : MonitorSleep(t)
    \/ \E t \in Threads : \E cm \in DrainMessages : Receive(t, cm)
    \/ \E t \in Threads : RouterReturn(t)
    \/ \E t \in Threads : \E e \in HandlerResults : Bubble(t, e)
    \/ \E t \in Threads : RouterDone(t)

SendSpec == Init /\ [][SendNext]_vars

\* The supervision of a client that sees few replacement triggers.
QuietNext ==
    \/ NewClientOk
    \/ NewClientFail
    \/ NewClientWrite
    \/ NewClientMonitor
    \/ CloseRead
    \/ CloseDo
    \/ \E t \in Threads : ReplaceConnectOk(t)
    \/ \E t \in Threads : ReplaceConnectFail(t)
    \/ \E t \in Threads : ReplaceRead(t)
    \/ \E t \in Threads : ReplaceWrite(t)
    \/ \E t \in Threads : ReplaceClose(t)
    \/ \E t \in Threads : MonitorRead(t)
    \/ \E t \in Threads : PingClosed(t)
    \/ \E t \in Threads : FewTriggers /\ PingTimeout(t)
    \/ \E t \in Threads : MonitorReturn(t)
    \/ \E t \in Threads : MonitorSleep(t)
    \/ \E t \in Threads : \E cm \in ControlDrains : FewTriggers /\ Receive(t, cm)
    \/ \E t \in Threads : RouterReturn(t)
    \/ \E t \in Threads : RouterDone(t)

QuietSpec == Init /\ [][QuietNext]_vars

\* The upstream message router under every message, on connections that stay
\* healthy and open: construction and the listen goroutines, with the
\* replacements their drain messages start, few of them.
RouterNext ==
    \/ NewClientOk
    \/ NewClientFail
    \/ NewClientWrite
    \/ NewClientMonitor
    \/ \E t \in Threads : ReplaceConnectOk(t)
    \/ \E t \in Threads : ReplaceConnectFail(t)
    \/ \E t \in Threads : ReplaceRead(t)
    \/ \E t \in Threads : ReplaceWrite(t)
    \/ \E t \in Threads : \E cm \in CcsMessages :
          (IsDrain(cm) => FewTriggers) /\ Receive(t, cm)
    \/ \E t \in Threads : RouterReturn(t)
    \/ \E t \in Threads : \E e \in HandlerResults : Bubble(t, e)
    \/ \E t \in Threads : RouterDone(t)

RouterSpec == Init /\ [][RouterNext]_vars

\* An exponentialBackoff under its methods, called one at a time in any
\* order by the goroutine that owns it.  The call made last is kept with its
\* argument, the backoff it was made on and what it returned.
Durations == 0..MaxDuration

BackoffNew ==
    /\ main.pc = "start"
    /\ \E eb \in newExponentialBackoff :
         main' = [main EXCEPT !.pc = "b_ready", !.eb = eb, !.op = "new"]
    /\ UNCHANGED <<xmppClient, inst, thr, hist>>

BackoffSetMin(d) ==
    /\ main.pc = "b_ready"
    /\ main' = [main EXCEPT !.eb = setMin(@, d), !.prev = main.eb,
                            !.op = "setMin", !.arg = d]
    /\ UNCHANGED <<xmppClient, inst, thr, hist>>

BackoffWait ==
    /\ main.pc = "b_ready"
    /\ \E eb \in wait(main.eb) :
         main' = [main EXCEPT !.eb = eb, !.prev = main.eb,
                              !.op = "wait", !.arg = 0]
    /\ UNCHANGED <<xmppClient, inst, thr, hist>>

BackoffSendAnother ==
    /\ main.pc = "b_ready"
    /\ main' = [main EXCEPT !.res = sendAnother(main.eb), !.prev = main.eb,
                            !.op = "sendAnother", !.arg = 0]
    /\ UNCHANGED <<xmppClient, inst, thr, hist>>

BackoffNext ==
    \/ BackoffNew
    \/ \E d \in Durations : BackoffSetMin(d)
    \/ BackoffWait
    \/ BackoffSendAnother

BackoffSpec == Init /\ [][BackoffNext]_vars

\* One SendHttp call of a constructed client.
HttpNext ==
    \/ NewClientOk
    \/ NewClientFail
    \/ NewClientWrite
    \/ NewClientMonitor
    \/ SendHttp
    \/ HttpCheck
    \/ \E d \in RetryAfters : HttpAttempt(d)
    \/ HttpWait

\* The caller's goroutine keeps running while it has a step to take.
HttpSpec == Init /\ [][HttpNext]_vars /\ WF_vars(HttpNext)

----------------------------------------------------------------------------
\* Properties.

M1 == <<"M", 1>>

NackDrain(cm) == cm.MessageType = CCSNack /\ cm.Error = Draining
ControlDrain(cm) == cm.MessageType = CCSControl /\ cm.ControlType = Draining

\* C1: once Close() has returned, no step installs another current instance
\* and no step starts another monitorConnection loop.
C1_NoReplacementAfterClose ==
    [][main.pc = "closed" => (xmppClient' = xmppClient /\ Monitors' = Monitors)]_vars

\* C2: a CONNECTION_DRAINING control message is never given to the caller's
\* handler and onCCSMessage returns nil for it; a CONNECTION_DRAINING nack is
\* given to the handler exactly once by the time onCCSMessage returns;
\* whether the replacement succeeded or failed.
C2_DrainRouting ==
    \A t \in Listeners :
        /\ ControlDrain(thr[t].cm) =>
              /\ thr[t].hcalls = 0
              /\ thr[t].pc = "o_ret" => thr[t].ret = "nil"
        /\ NackDrain(thr[t].cm) =>
              /\ thr[t].hcalls <= 1
              /\ thr[t].pc = "o_ret" => thr[t].hcalls = 1 /\ thr[t].hmsg = thr[t].cm

C2_Witness ==
    \E t \in Listeners :
        /\ thr[t].pc = "o_ret"
        /\ NackDrain(thr[t].cm)
        /\ thr[t].rerr
        /\ thr[t].hcalls = 1

\* C3: a replaceXmppClient call whose connectXmpp failed returns the error
\* having written no current instance, started no monitor and closed nothing;
\* a call returns an error only then.
C3_FailedReplaceChangesNothing ==
    \A t \in Threads :
        thr[t].pc = "r_ret" =>
            /\ thr[t].rerr <=> thr[t].newc = 0
            /\ thr[t].newc = 0 =>
                  thr[t].nwrite = 0 /\ thr[t].nspawn = 0 /\ thr[t].nclose = 0

C3_Witness ==
    \E t \in Monitors :
        /\ thr[t].pc = "r_ret"
        /\ thr[t].rerr
        /\ thr[t].closeOld
        /\ xmppClient = thr[t].x
        /\ inst[thr[t].x].open

\* C4: when a successful replaceXmppClient(false) returns, the call has
\* closed nothing; when a successful replaceXmppClient(true) returns, the
\* instance that was current when the call was made is closed.
C4_OldInstance ==
    \A t \in Threads :
        (thr[t].pc = "r_ret" /\ ~thr[t].rerr) =>
            IF thr[t].closeOld
            THEN thr[t].nclose = 1 /\ ~inst[thr[t].entry].open
            ELSE thr[t].nclose = 0

\* C5: a freshly constructed client whose first ping timed out, with nothing
\* else happening (no drain, no Close, the connect succeeds): one
\* replaceXmppClient(true) is executed, and once it has returned gracefulClose
\* has been called exactly once on the initial instance.
FirstTimeout ==
    /\ hist.timeouts = 1
    /\ hist.drains = 0
    /\ hist.monFails = 0
    /\ main.pc = "ready"

C5_FirstTimeout ==
    FirstTimeout =>
        /\ hist.replTrue = 1
        /\ inst[1].closes <= 1
        /\ thr[M1].pc \in {"r_ret", "m_loop", "m_ping", "m_done"} =>
              /\ inst[1].closes = 1
              /\ xmppClient = 2
              /\ \A i \in 2..Len(inst) : inst[i].closes = 0

C5_Witness ==
    /\ FirstTimeout
    /\ thr[M1].pc = "m_loop"
    /\ inst[1].closes = 1
    /\ Len(inst) = 2

\* NewClient has returned a Client.
Constructed == main.pc \notin {"start", "failed", "n_write", "n_spawn"}

\* C6: a constructed client always has a current instance, one that
\* connected; and when the sleep that follows a monitorConnection loop's
\* failed replacement is over, the loop's next step is another replacement
\* attempt.
C6_AlwaysCurrent ==
    /\ [](Constructed => xmppClient \in 1..Len(inst))
    /\ [][\A t \in Tids :
            (thr[t].pc = "m_sleep" /\ thr'[t].pc # "m_sleep") =>
                thr'[t].pc = "r_connect"]_vars

\* C7: a SendHttp call whose transport fails every attempt returns: its retry
\* loop reaches the point where sendAnother() is false.
C7_SendHttpReturns == (main.pc = "h_check") ~> (main.pc = "h_done")

\* C8: a failed NewClient leaves no client, no goroutine and one connect
\* attempt; a successful one returns with the instance it connected as the
\* current one and with one monitorConnection loop started.
C8_NewClient ==
    /\ [](main.pc = "failed" =>
            /\ xmppClient = 0
            /\ inst = <<>>
            /\ Threads = {}
            /\ hist.connects = 1)
    /\ [][(main.pc = "n_spawn" /\ main'.pc = "ready") =>
            /\ xmppClient' = main.x
            /\ Monitors' = {<<"M", main.x>>}]_vars

\* C9: a message that is neither a CONNECTION_DRAINING nack nor a
\* CONNECTION_DRAINING control message is given unchanged to the handler
\* exactly once, and handling it calls no replaceXmppClient, writes no
\* current instance and closes nothing.
C9_OtherMessages ==
    \A t \in Listeners :
        (thr[t].cm # NoMessage /\ ~NackDrain(thr[t].cm) /\ ~ControlDrain(thr[t].cm)) =>
            /\ thr[t].rcalls = 0
            /\ thr[t].nwrite = 0
            /\ thr[t].nclose = 0
            /\ thr[t].hcalls <= 1
            /\ thr[t].pc = "o_ret" => thr[t].hcalls = 1 /\ thr[t].hmsg = thr[t].cm

C9_Witness ==
    \E t \in Listeners :
        /\ thr[t].pc = "o_ret"
        /\ thr[t].cm.MessageType = CCSNack
        /\ thr[t].cm.Error = ""
        /\ thr[t].hcalls = 1

\* C10: when the handler returned an error, onCCSMessage returns that error,
\* and no replaceXmppClient call follows the handler call: the call count is
\* the one of the message alone.
C10_HandlerError ==
    \A t \in Listeners :
        (thr[t].pc = "o_ret" /\ thr[t].hcalls = 1) =>
            /\ thr[t].ret = thr[t].herr
            /\ thr[t].rcalls = IF NackDrain(thr[t].cm) THEN 1 ELSE 0
            /\ thr[t].nwrite <= thr[t].rcalls

C10_Witness ==
    \E t \in Listeners :
        /\ thr[t].pc = "o_ret"
        /\ thr[t].herr = "e2"
        /\ thr[t].ret = "e2"
        /\ ~NackDrain(thr[t].cm)

\* C11: a drain message makes onCCSMessage call replaceXmppClient(false)
\* exactly once; the call has returned (with an error, or with the new
\* instance installed and its monitor started) before the message is given to
\* the handler or consumed; and the call invokes no gracefulClose.
InReplace(r) == r.pc \in {"r_connect", "r_read", "r_write", "r_close", "r_ret"}

C11_DrainReplacesOnce ==
    \A t \in Listeners :
        (NackDrain(thr[t].cm) \/ ControlDrain(thr[t].cm)) =>
            /\ thr[t].rcalls = 1
            /\ ~thr[t].closeOld
            /\ thr[t].nclose = 0
            /\ InReplace(thr[t]) => thr[t].hcalls = 0
            /\ thr[t].pc \in {"o_bubble", "o_ret"} =>
                  \/ thr[t].rerr /\ thr[t].nwrite = 0
                  \/ ~thr[t].rerr /\ thr[t].nwrite = 1 /\ thr[t].nspawn = 1

C11_Witness ==
    \E t \in Listeners :
        /\ thr[t].pc = "o_ret"
        /\ ControlDrain(thr[t].cm)
        /\ ~thr[t].rerr
        /\ xmppClient = thr[t].newc
        /\ thr[t].oldc # 0
        /\ inst[thr[t].oldc].open
        /\ inst[thr[t].oldc].closes = 0

\* The instances connected by replaceXmppClient calls that have returned nil.
ReturnedNew ==
    {i \in 2..Len(inst) :
        \A t \in Threads : InReplace(thr[t]) => thr[t].newc # i}

\* C12: a SendXmpp call reads the instance that is current when it is made,
\* makes one send attempt on it and returns that attempt's result; once a
\* replaceXmppClient call has returned nil, the instance read is one that
\* replaceXmppClient installed, and never one that a returned call replaced.
C12_SendXmpp ==
    /\ [](main.pc = "s_done" =>
            main.sends = 1 /\ main.sret = main.sres /\ main.sx \in 1..Len(inst))
    /\ [][main.pc # "s_send" /\ main'.pc = "s_send" =>
            /\ main'.sx = xmppClient
            /\ ~inst[main'.sx].replaced
            /\ ReturnedNew # {} => main'.sx \in 2..Len(inst)]_vars

\* C13: at most one monitorConnection loop is health-checking any given
\* instance: a loop whose instance was replaced stops instead of going on to
\* ping the new instance next to the loop started for it.
C13_OneLoopPerInstance ==
    \A i \in 1..Len(inst) :
        Cardinality({t \in Monitors : thr[t].pc = "m_ping" /\ thr[t].x = i}) <= 1

\* C14: a monitorConnection loop's replaceXmppClient(true) invokes
\* gracefulClose only on an instance whose own health check has timed out.
C14_ClosesOnlyTimedOut ==
    \A t \in Monitors :
        thr[t].nclose > 0 => inst[CloseTarget(thr[t])].timedOut

\* C15: the swap is atomic: the instance a replaceXmppClient call read as
\* oldc is still the current one in the state its write c.xmppClient = newc
\* is made from.
C15_AtomicSwap ==
    [][\A t \in Tids :
          thr[t].pc = "r_write" /\ thr'[t].pc # "r_write" =>
              thr[t].oldc = xmppClient]_vars

\* C16: after wait() returns, the caller's backoff has advanced: its current
\* delay is the next delay of the schedule and the schedule has moved on, as
\* the body of wait computes them.
C16_WaitAdvances ==
    main.op = "wait" => main.eb \in waitBody(main.prev)

\* C17: setMin(d) sets the minimum to d and leaves the current delay equal to
\* the larger of its previous value and d; nothing else changes.
C17_SetMin ==
    main.op = "setMin" =>
        /\ main.eb.Min = main.arg
        /\ main.eb.currentDelay =
              (IF main.prev.currentDelay >= main.arg
               THEN main.prev.currentDelay ELSE main.arg)
        /\ main.eb.Max = main.prev.Max
        /\ main.eb.attempts = main.prev.attempts

C17_Witness ==
    /\ main.op = "setMin"
    /\ main.prev.currentDelay > DefaultMinBackoff
    /\ main.arg > 0
    /\ main.arg < main.prev.currentDelay
    /\ main.arg # main.prev.Min
    /\ main.eb.currentDelay = main.prev.currentDelay

\* C18: whatever wait() and setMin() calls came before, sendAnother() returns
\* false exactly when the current delay exceeds the maximum; and it does return
\* false in some reachable state.
C18_SendAnother ==
    main.op = "sendAnother" =>
        (main.res = FALSE <=> main.eb.currentDelay > main.eb.Max)

C18_Witness ==
    /\ main.op = "sendAnother"
    /\ main.res = FALSE
    /\ main.eb.currentDelay > DefaultMaxBackoff

\* C19: when the ping of the current instance times out in a client that is
\* not closed, the loop keeps calling replaceXmppClient(true), and once a
\* connect succeeds a new instance is current and the timed-out instance is
\* closed.  The run is excused when the caller closes the client, and when
\* every attempt the bound allows has failed.
TimedOutCurrent(i) ==
    /\ main.pc = "ready"
    /\ xmppClient = i
    /\ \E t \in Monitors :
          thr[t].pc = "r_connect" /\ thr[t].closeOld /\ thr[t].x = i

ReplacedAndClosed(i) ==
    i <= Len(inst) /\ xmppClient # i /\ ~inst[i].open

OutOfAttempts(i) ==
    /\ ~Budget
    /\ xmppClient = i
    /\ \A t \in Threads : ~InReplace(thr[t])

C19_TimedOutReplaced ==
    \A i \in 1..MaxConnects :
        TimedOutCurrent(i) ~>
            (ReplacedAndClosed(i) \/ main.pc # "ready" \/ OutOfAttempts(i))

TypeOK ==
    /\ xmppClient \in 0..Len(inst)
    /\ \A t \in Threads : thr[t].pc \in {"m_ping", "r_close"} => thr[t].x # 0
    /\ \A t \in Threads : thr[t].pc = "r_close" => CloseTarget(thr[t]) # 0
    /\ Len(inst) <= MaxConnects
    /\ \A t \in Threads : thr[t].x \in 0..Len(inst) /\ thr[t].newc \in 0..Len(inst)
    /\ \A t \in Threads : t[2] <= Len(inst)
    /\ hist.connects <= MaxConnects
====
